---- MODULE Spec2Model ----
(***************************************************************************)
(* A model of src/src/server.ts: the event router (AnalysisFiles), the     *)
(* fan-in Aggregator, the package.json Diagnostics handler with its        *)
(* per-dependency metadata fetches, and the stack-analysis submit/poll     *)
(* loop (get_stack_metadata / stack_collector).                            *)
(*                                                                         *)
(* JavaScript runs every callback to completion on one thread, so each     *)
(* action below is one whole callback: an editor notification, the         *)
(* resolution of the collector's promise, the 'end' of one HTTP response,  *)
(* the firing of one timer.                                                *)
(***************************************************************************)
EXTENDS Naturals, Integers, Sequences, FiniteSets, Bags, TLC

\* ------------------------------------------------------------------ bounds

\* Handler invocations (manifest-analysis runs) in one behaviour.
MaxRuns == 2
\* 202 answers the remote service gives to the polls of one request id.
MaxRetries == 2
\* aggregate() calls made on the Aggregator under test (AggSpec).
MaxCalls == 4
\* Registrations made on the router under test (RouterSpec).
MaxHandlers == 3

\* ------------------------------------------------------------ program text

\* The delay of both setTimeout calls, in milliseconds.
PollDelay == 10000

\* enum EventStream
EventStream == {"Invalid", "Diagnostics", "CodeLens"}

\* File names are sequences of characters; a token stands for the run of
\* letters it spells, "." for the dot.
PackageJson == <<"package", ".", "json">>
PackageJsonBak == <<"package", ".", "json", ".", "bak">>
PomXml == <<"pom", ".", "xml">>
ReadmeMd == <<"README", ".", "md">>
FileNames == {PackageJson, PackageJsonBak, PomXml, ReadmeMd}

\* A regular expression of the shape the program uses: an optional ^, a
\* literal, an optional $.
PackageJsonRe == [start |-> TRUE, lit |-> PackageJson, end |-> TRUE]
PackageRe == [start |-> FALSE, lit |-> <<"package">>, end |-> FALSE]
JsonEndRe == [start |-> FALSE, lit |-> <<".", "json">>, end |-> TRUE]
Matchers == {PackageJsonRe, PackageRe, JsonEndRe}

\* RegExp.prototype.test: the literal occurs in the name at some offset, at
\* offset 1 under ^, ending at the last character under $.
Test(re, file) ==
    \E i \in 1..(Len(file) + 1) :
        /\ i + Len(re.lit) - 1 <= Len(file)
        /\ \A k \in 1..Len(re.lit) : file[i + k - 1] = re.lit[k]
        /\ re.start => i = 1
        /\ re.end => i + Len(re.lit) - 1 = Len(file)

\* Document URIs as their path segments: file:///a/package.json and so on.
\* The last one is a README inside a directory called package.json.
UriA == << <<"a">>, PackageJson >>
UriB == << <<"b">>, PackageJson >>
UriR == << PackageJson, ReadmeMd >>
URIs == {UriA, UriB, UriR}

\* The slip of taking the directory for the file name; C9 rules it out.
BasenameOfDirectory(uri) == uri[1]

\* path.basename(url.parse(uri).pathname)
Basename(uri) == uri[Len(uri)]

\* ------------------------------------------------------------------ router

\* The slip of letting the last matching registration win; C8 rules it out.
FirstMatchLast(hs, stream, file) ==
    LET hit == {i \in 1..Len(hs) : hs[i].stream = stream /\ Test(hs[i].matcher, file)}
    IN  IF hit = {} THEN 0 ELSE CHOOSE i \in hit : \A j \in hit : i >= j

\* The index of the first registration whose stream equals the requested one
\* and whose matcher tests true on the file name; 0 when there is none.
FirstMatch(hs, stream, file) ==
    LET hit == {i \in 1..Len(hs) : hs[i].stream = stream /\ Test(hs[i].matcher, file)}
    IN  IF hit = {} THEN 0 ELSE CHOOSE i \in hit : \A j \in hit : i <= j

\* AnalysisFiles.run: the callbacks it invokes, in order, and what it returns
\* (<< >> is undefined, <<c>> the value callback c returned).
run(hs, stream, file) ==
    LET i == FirstMatch(hs, stream, file)
    IN  IF i = 0
        THEN [invoked |-> << >>, result |-> << >>]
        ELSE [invoked |-> <<hs[i].callback>>, result |-> <<hs[i].callback>>]

\* AnalysisFiles.on: push a new AnalysisFileHandler.
on(hs, stream, matcher, cb) ==
    Append(hs, [matcher |-> matcher, stream |-> stream, callback |-> cb])

\* -------------------------------------------------------------- aggregator

\* new Aggregator(items, callback): every item mapped to false.  The
\* constructor holds no call of is_ready or of the callback: fired is false.
Aggregator(items) == [mapping |-> [d \in items |-> FALSE], fired |-> FALSE]

\* The slip of reporting ready as soon as one key is marked; C1 rules it out.
is_ready_any(m) == \E d \in DOMAIN m : m[d]

\* Aggregator.is_ready: the conjunction of the marks (true over no entries).
is_ready(m) == \A d \in DOMAIN m : m[d]

\* this.mapping.set(dep, true): Map.set inserts a key it does not hold yet.
MapSetTrue(m, dep) == [d \in (DOMAIN m) \cup {dep} |-> IF d = dep THEN TRUE ELSE m[d]]

\* Aggregator.aggregate: the mapping after the call, and whether the call
\* invoked the callback.
aggregate(m, dep) ==
    LET m2 == MapSetTrue(m, dep)
    IN  [mapping |-> m2, fired |-> is_ready(m2)]

\* ---------------------------------------------------- manifests, metadata

\* Manifest texts the editor can hold: no dependencies, two, and one the
\* collector cannot parse.
ManifestNone == "{}"
ManifestTwo == "{left-pad,lodash}"
ManifestBad == "{"
Contents == {ManifestNone, ManifestTwo, ManifestBad}

LeftPad == [name |-> "left-pad", version |-> "1.0.0"]
Lodash == [name |-> "lodash", version |-> "4.17.0"]
Express == [name |-> "express", version |-> "4.0.0"]
Dependencies == {LeftPad, Lodash, Express}

\* DependencyCollector.collect: the promise resolves with the dependency
\* list or rejects.
collect(contents) ==
    CASE contents = ManifestNone -> [ok |-> TRUE, deps |-> << >>]
      [] contents = ManifestTwo -> [ok |-> TRUE, deps |-> <<LeftPad, Lodash>>]
      [] OTHER -> [ok |-> FALSE, deps |-> << >>]

\* What the analyses endpoint answers to one get_metadata: a payload under
\* 200 or 202, no payload under 404.  The payload is the set of findings.
NoFindings == {}
LicenseFinding == {"license"}
MetadataFound == [statusCode |-> 200, body |-> LicenseFinding]
MetadataAccepted == [statusCode |-> 202, body |-> LicenseFinding]
MetadataMissing == [statusCode |-> 404, body |-> NoFindings]
MetadataResponses == {MetadataFound, MetadataAccepted, MetadataMissing}

\* The res.on('end') handler of get_metadata: the argument it passes to cb,
\* << >> for null and <<payload>> for the parsed body.
MetadataEnd(res) ==
    IF res.statusCode = 200 \/ res.statusCode = 202 THEN <<res.body>> ELSE << >>

\* DiagnosticsEngines, in pipeline order (no_crypto is false by default).
DiagnosticsEngines == <<"LicenseEngine", "SecurityEngine", "EmptyResultEngine">>

\* What one engine appends for one dependency and response.
Consume(engine, dep, response) ==
    CASE engine = "LicenseEngine" ->
             IF "license" \in response THEN <<[dep |-> dep, source |-> engine]>> ELSE << >>
      [] engine = "SecurityEngine" ->
             IF "security" \in response THEN <<[dep |-> dep, source |-> engine]>> ELSE << >>
      [] OTHER ->
             IF response = NoFindings THEN <<[dep |-> dep, source |-> engine]>> ELSE << >>

\* DiagnosticsPipeline.run: every engine in order, appending to the buffer.
RECURSIVE PipelineFrom(_, _, _, _)
PipelineFrom(i, dep, response, buffer) ==
    IF i > Len(DiagnosticsEngines)
    THEN buffer
    ELSE PipelineFrom(i + 1, dep, response,
                      buffer \o Consume(DiagnosticsEngines[i], dep, response))

PipelineRun(dep, response, buffer) == PipelineFrom(1, dep, response, buffer)

\* The slip of marking the dependency complete before its pipeline has run,
\* so that the publish of the last dependency misses its entries; C6 rules
\* it out.
MetadataCallbackMarkFirst(rn, dep, cbarg) ==
    LET agg == aggregate(rn.mapping, dep)
        buffer == IF cbarg # << >>
                  THEN PipelineRun(dep, cbarg[1], rn.diagnostics)
                  ELSE rn.diagnostics
    IN  [mapping |-> agg.mapping,
         diagnostics |-> buffer,
         piped |-> cbarg # << >>,
         send |-> IF agg.fired
                  THEN <<[uri |-> rn.uri, diagnostics |-> rn.diagnostics]>>
                  ELSE << >>]

\* The callback the handler gives get_metadata (lines 283-289): the pipeline
\* when the response is not null, then aggregate; the aggregator's callback
\* sends the buffer as it is at that moment.  piped tells whether a
\* DiagnosticsPipeline was constructed and run.
MetadataCallback(rn, dep, cbarg) ==
    LET buffer == IF cbarg # << >>
                  THEN PipelineRun(dep, cbarg[1], rn.diagnostics)
                  ELSE rn.diagnostics
        agg == aggregate(rn.mapping, dep)
    IN  [mapping |-> agg.mapping,
         diagnostics |-> buffer,
         piped |-> cbarg # << >>,
         send |-> IF agg.fired THEN <<[uri |-> rn.uri, diagnostics |-> buffer]>> ELSE << >>]

\* JavaScript's obj[key] = value on a plain property table.
Put(f, k, v) == [x \in (DOMAIN f) \cup {k} |-> IF x = k THEN v ELSE f[x]]

\* ------------------------------------------------------------------- state

VARIABLES
    handlers,       \* files.handlers: the registrations, in order
    file_data,      \* files.file_data: uri -> last known text
    runs,           \* the handler invocations so far, each with its closure state
    sent,           \* the connection.sendDiagnostics calls, in order
    stack_analysis_requests,    \* uri -> remote request id
    stack_analysis_responses,   \* uri -> final stack-analysis result
    posts,          \* submissions (request.post) awaiting their response
    timers,         \* pending setTimeout(stack_collector) calls
    polls,          \* polls (request.get) awaiting their response
    post_calls,     \* uri -> how many times request.post was called for it
    retries,        \* request id -> how many polls of it were answered 202
    dispatch,       \* the last AnalysisFiles.run made on the router under test
    agg_items,      \* the items the Aggregator under test was constructed over
    agg_mapping,    \* its mapping
    agg_calls,      \* the keys aggregate() was called with, in order
    agg_fired       \* for each callback invocation, the number of the call that made it

routerVars == <<dispatch>>
aggVars == <<agg_items, agg_mapping, agg_calls, agg_fired>>
stackVars == <<stack_analysis_requests, stack_analysis_responses, posts, timers,
               polls, post_calls, retries>>
runVars == <<runs, sent>>
vars == <<handlers, file_data, runVars, stackVars, routerVars, aggVars>>

\* --------------------------------------------------------- initial state

\* The handler registered at line 269.
PackageJsonHandler == "package.json"

\* The state once the module has loaded: one registration, empty tables.
Init ==
    /\ handlers = on(<< >>, "Diagnostics", PackageJsonRe, PackageJsonHandler)
    /\ file_data = << >>
    /\ runs = << >>
    /\ sent = << >>
    /\ stack_analysis_requests = << >>
    /\ stack_analysis_responses = << >>
    /\ posts = EmptyBag
    /\ timers = EmptyBag
    /\ polls = EmptyBag
    /\ post_calls = [u \in URIs |-> 0]
    /\ retries = << >>
    /\ dispatch = [stream |-> "Invalid", file |-> << >>, invoked |-> << >>, result |-> << >>]
    /\ agg_items = {}
    /\ agg_mapping = << >>
    /\ agg_calls = << >>
    /\ agg_fired = << >>

\* ------------------------------------------------------- editor and handler

\* get_stack_metadata: nothing when the uri is a key of the requests table,
\* a request.post otherwise.
\* The slip of looking the uri up in the table of results; C20 rules it out.
GuardedByResponses(uri) == uri \in DOMAIN stack_analysis_responses

GuardedByRequests(uri) == uri \in DOMAIN stack_analysis_requests

get_stack_metadata(uri) ==
    IF GuardedByRequests(uri)
    THEN UNCHANGED <<posts, post_calls>>
    ELSE /\ posts' = posts (+) SetToBag({[uri |-> uri]})
         /\ post_calls' = [post_calls EXCEPT ![uri] = @ + 1]

\* The Diagnostics handler of package.json up to its first suspension: the
\* submission, then collect() whose promise settles later.
NewRun(uri, contents) ==
    [uri |-> uri, contents |-> contents, phase |-> "collecting", deps |-> << >>,
     mapping |-> << >>, fetch |-> << >>, diagnostics |-> << >>]

\* The slip of abandoning the document's earlier runs when a new one starts;
\* C18 rules it out.
package_json_handler_cancelling(uri, contents) ==
    /\ Len(runs) < MaxRuns
    /\ get_stack_metadata(uri)
    /\ runs' = Append([r \in 1..Len(runs) |->
                          IF runs[r].uri = uri
                          THEN [runs[r] EXCEPT !.phase = "rejected"]
                          ELSE runs[r]],
                      NewRun(uri, contents))

package_json_handler(uri, contents) ==
    /\ Len(runs) < MaxRuns
    /\ get_stack_metadata(uri)
    /\ runs' = Append(runs, NewRun(uri, contents))

\* AnalysisLSPServer.handle_file_event: cache the text, then dispatch on the
\* Diagnostics stream by the bare file name.
handle_file_event(uri, contents) ==
    /\ file_data' = Put(file_data, uri, contents)
    /\ IF run(handlers, "Diagnostics", Basename(uri)).invoked = <<PackageJsonHandler>>
       THEN package_json_handler(uri, contents)
       ELSE UNCHANGED <<runs, posts, post_calls>>
    /\ UNCHANGED <<handlers, sent, stack_analysis_requests, stack_analysis_responses,
                   timers, polls, retries, routerVars, aggVars>>

onDidOpenTextDocument(uri, text) == handle_file_event(uri, text)

\* The slip of saving with the text of the notification, which a save does
\* not carry, instead of the cached text; C15 rules it out.
onDidSaveTextDocumentWithoutCache(uri) ==
    /\ uri \in DOMAIN file_data
    /\ handle_file_event(uri, ManifestNone)

\* The editor saves only documents it has opened, so the cache holds the uri.
onDidSaveTextDocument(uri) ==
    /\ uri \in DOMAIN file_data
    /\ handle_file_event(uri, file_data[uri])

onDidChangeTextDocument(uri, text) ==
    /\ file_data' = Put(file_data, uri, text)
    /\ UNCHANGED <<handlers, runVars, stackVars, routerVars, aggVars>>

\* ------------------------------------------------------------ fan-out, fan-in

SeqToSet(s) == {s[i] : i \in 1..Len(s)}

\* A connection.sendDiagnostics call of run r, as appended to sent.
Published(r, uri, diagnostics) == [uri |-> uri, diagnostics |-> diagnostics, run |-> r]

\* collect() resolved (lines 276-291): the fresh buffer and Aggregator, one
\* get_metadata per dependency.
CollectResolved(r) ==
    /\ r \in 1..Len(runs)
    /\ runs[r].phase = "collecting"
    /\ collect(runs[r].contents).ok
    /\ LET deps == collect(runs[r].contents).deps
           aggregator == Aggregator(SeqToSet(deps))
       IN  /\ runs' = [runs EXCEPT ![r] =
                    [@ EXCEPT !.phase = "fanned",
                              !.deps = deps,
                              !.mapping = aggregator.mapping,
                              !.fetch = [d \in SeqToSet(deps) |->
                                            [st |-> "inflight", arg |-> << >>, piped |-> FALSE]],
                              !.diagnostics = << >>]]
           /\ sent' = IF aggregator.fired
                      THEN Append(sent, Published(r, runs[r].uri, << >>))
                      ELSE sent
    /\ UNCHANGED <<handlers, file_data, stackVars, routerVars, aggVars>>

\* The slip of publishing an empty list when collect() rejects; C13 rules it
\* out.
CollectRejectedPublishesEmpty(r) ==
    /\ r \in 1..Len(runs)
    /\ runs[r].phase = "collecting"
    /\ ~collect(runs[r].contents).ok
    /\ runs' = [runs EXCEPT ![r].phase = "rejected"]
    /\ sent' = Append(sent, Published(r, runs[r].uri, << >>))
    /\ UNCHANGED <<handlers, file_data, stackVars, routerVars, aggVars>>

\* collect() rejected: the then-callback never runs.
CollectRejected(r) ==
    /\ r \in 1..Len(runs)
    /\ runs[r].phase = "collecting"
    /\ ~collect(runs[r].contents).ok
    /\ runs' = [runs EXCEPT ![r].phase = "rejected"]
    /\ UNCHANGED <<handlers, file_data, sent, stackVars, routerVars, aggVars>>

\* The slip of keeping the buffer outside the handler's closure, one for all
\* runs; C19 rules it out.
MetadataResponseSharedBuffer(r, dep, res) ==
    /\ r \in 1..Len(runs)
    /\ runs[r].phase = "fanned"
    /\ dep \in DOMAIN runs[r].fetch
    /\ runs[r].fetch[dep].st = "inflight"
    /\ res \in MetadataResponses
    /\ LET out == MetadataCallback(runs[r], dep, MetadataEnd(res))
       IN  /\ runs' = [q \in 1..Len(runs) |->
                    IF q = r
                    THEN [runs[q] EXCEPT !.fetch = [@ EXCEPT ![dep] =
                                                      [st |-> "ended", arg |-> MetadataEnd(res),
                                                       piped |-> out.piped]],
                                         !.mapping = out.mapping,
                                         !.diagnostics = out.diagnostics]
                    ELSE IF runs[q].phase = "fanned"
                         THEN [runs[q] EXCEPT !.diagnostics = out.diagnostics]
                         ELSE runs[q]]
           /\ sent' = sent \o [i \in 1..Len(out.send) |->
                                  Published(r, out.send[i].uri, out.send[i].diagnostics)]
    /\ UNCHANGED <<handlers, file_data, stackVars, routerVars, aggVars>>

\* The 'end' of the response to one get_metadata, and the callback it calls.
MetadataResponse(r, dep, res) ==
    /\ r \in 1..Len(runs)
    /\ runs[r].phase = "fanned"
    /\ dep \in DOMAIN runs[r].fetch
    /\ runs[r].fetch[dep].st = "inflight"
    /\ res \in MetadataResponses
    /\ LET out == MetadataCallback(runs[r], dep, MetadataEnd(res))
       IN  /\ runs' = [runs EXCEPT ![r] =
                    [@ EXCEPT !.fetch = [@ EXCEPT ![dep] =
                                            [st |-> "ended", arg |-> MetadataEnd(res),
                                             piped |-> out.piped]],
                              !.mapping = out.mapping,
                              !.diagnostics = out.diagnostics]]
           /\ sent' = sent \o [i \in 1..Len(out.send) |->
                                  Published(r, out.send[i].uri, out.send[i].diagnostics)]
    /\ UNCHANGED <<handlers, file_data, stackVars, routerVars, aggVars>>

\* A network error on one get_metadata: http.get's request has no 'error'
\* listener and the response function never runs, so cb is never called.
MetadataError(r, dep) ==
    /\ r \in 1..Len(runs)
    /\ runs[r].phase = "fanned"
    /\ dep \in DOMAIN runs[r].fetch
    /\ runs[r].fetch[dep].st = "inflight"
    /\ runs' = [runs EXCEPT ![r].fetch[dep] = [st |-> "error", arg |-> << >>, piped |-> FALSE]]
    /\ UNCHANGED <<handlers, file_data, sent, stackVars, routerVars, aggVars>>

\* ------------------------------------------------------------ stack analysis

\* What the stack-analyses endpoint answers to a submission: err is the
\* transport error, error the body's error member, status its status member.
SubmitAccepted == [err |-> FALSE, error |-> FALSE, status |-> "success"]
SubmitRefused == [err |-> FALSE, error |-> TRUE, status |-> "error"]
SubmitTransportError == [err |-> TRUE, error |-> FALSE, status |-> "undefined"]
SubmitResponses == {SubmitAccepted, SubmitRefused, SubmitTransportError}

\* What it answers to a poll: the result, 202 with an error body while the
\* analysis is in progress (lines 208-210), another failure, a transport error.
PollSuccess == [err |-> FALSE, statusCode |-> 200, status |-> "success"]
PollInProgress == [err |-> FALSE, statusCode |-> 202, status |-> "undefined"]
PollFailure == [err |-> FALSE, statusCode |-> 500, status |-> "undefined"]
PollTransportError == [err |-> TRUE, statusCode |-> 0, status |-> "undefined"]
PollResponses == {PollSuccess, PollInProgress, PollFailure, PollTransportError}

\* setTimeout(() => { stack_collector(file_uri, id) }, 10000)
Timer(uri, id) == [uri |-> uri, id |-> id, delay |-> PollDelay]

\* The slip of arming two timers for one 202 answer; C10 rules it out.
RescheduleTwice(uri, id) == SetToBag({Timer(uri, id)}) (+) SetToBag({Timer(uri, id)})

\* The timers the poll callback arms on a 202 answer (line 212).
Reschedule(uri, id) == SetToBag({Timer(uri, id)})

\* The id the service gives the next accepted submission.
FreshId == Len(retries) + 1

\* Whether the submission callback records the id and arms the first poll.
SubmissionRecorded(resp) == ~resp.err /\ ~resp.error /\ resp.status = "success"

\* The callback of request.post in get_stack_metadata (lines 237-248).
SubmitResponse(uri, resp) ==
    /\ BagIn([uri |-> uri], posts)
    /\ resp \in SubmitResponses
    /\ posts' = posts (-) SetToBag({[uri |-> uri]})
    /\ IF SubmissionRecorded(resp)
       THEN /\ stack_analysis_requests' = Put(stack_analysis_requests, uri, FreshId)
            /\ timers' = timers (+) SetToBag({Timer(uri, FreshId)})
            /\ retries' = Append(retries, 0)
       ELSE UNCHANGED <<stack_analysis_requests, timers, retries>>
    /\ UNCHANGED <<handlers, file_data, runVars, stack_analysis_responses, polls,
                   post_calls, routerVars, aggVars>>

\* A timer fires: stack_collector issues its request.get.
TimerFires(uri, id) ==
    /\ BagIn(Timer(uri, id), timers)
    /\ timers' = timers (-) SetToBag({Timer(uri, id)})
    /\ polls' = polls (+) SetToBag({[uri |-> uri, id |-> id]})
    /\ UNCHANGED <<handlers, file_data, runVars, stack_analysis_requests,
                   stack_analysis_responses, posts, post_calls, retries,
                   routerVars, aggVars>>

\* The slip of polling again after any answer that is not a success; C11
\* rules it out.
PollOutcomeRetryUnlessSuccess(res) ==
    IF res.err THEN "throw"
    ELSE IF res.status = "success" THEN "store"
    ELSE "retry"

\* What the callback of request.get does with a response (lines 203-215):
\* "throw" when JSON.parse has no body to parse, "store" on success,
\* "retry" on 202, "stop" otherwise.
PollOutcome(res) ==
    IF res.err THEN "throw"
    ELSE IF res.status = "success" THEN "store"
    ELSE IF res.statusCode = 202 THEN "retry"
    ELSE "stop"

PollResponse(uri, id, res) ==
    /\ BagIn([uri |-> uri, id |-> id], polls)
    /\ res \in PollResponses
    /\ res = PollInProgress => retries[id] < MaxRetries
    /\ polls' = polls (-) SetToBag({[uri |-> uri, id |-> id]})
    /\ stack_analysis_responses' =
          IF PollOutcome(res) = "store"
          THEN Put(stack_analysis_responses, uri, [status |-> res.status, id |-> id])
          ELSE stack_analysis_responses
    /\ timers' =
          IF PollOutcome(res) = "retry"
          THEN timers (+) Reschedule(uri, id)
          ELSE timers
    /\ retries' = IF res = PollInProgress THEN [retries EXCEPT ![id] = @ + 1] ELSE retries
    /\ UNCHANGED <<handlers, file_data, runVars, stack_analysis_requests, posts,
                   post_calls, routerVars, aggVars>>

\* ------------------------------------------------------------ specifications

\* The texts the editor shows for a document: any for a package.json; for
\* the README, whose text nothing reads, a manifest's.
Texts(u) == IF Basename(u) = PackageJson THEN Contents ELSE {ManifestTwo}

\* The editor's notifications.
OpenOrSave ==
    \/ \E u \in URIs, c \in Contents : c \in Texts(u) /\ onDidOpenTextDocument(u, c)
    \/ \E u \in URIs : onDidSaveTextDocument(u)

EditorNext ==
    \/ OpenOrSave
    \/ \E u \in URIs, c \in Contents : c \in Texts(u) /\ onDidChangeTextDocument(u, c)

\* The settling of promises and metadata fetches.
RunNext ==
    \/ \E r \in 1..Len(runs) : CollectResolved(r)
    \/ \E r \in 1..Len(runs) : CollectRejected(r)
    \/ \E r \in 1..Len(runs) : \E d \in DOMAIN runs[r].fetch, res \in MetadataResponses :
          MetadataResponse(r, d, res)
    \/ \E r \in 1..Len(runs) : \E d \in DOMAIN runs[r].fetch : MetadataError(r, d)

\* The stack-analysis service's answers and the poll timers.
StackNext ==
    \/ \E u \in URIs, resp \in SubmitResponses : SubmitResponse(u, resp)
    \/ \E u \in URIs, id \in 1..Len(retries) : TimerFires(u, id)
    \/ \E u \in URIs, id \in 1..Len(retries), res \in PollResponses : PollResponse(u, id, res)

\* The whole server.
Next == EditorNext \/ RunNext \/ StackNext

Spec == Init /\ [][Next]_vars

\* The runs and the stack-analysis loop share no variable: the handler starts
\* both, and from there neither reads nor writes what the other does.  Each
\* is checked in the server with the other side's answers still outstanding.
\* A change notification only rewrites the cache, whose text reaches a
\* handler through a later save exactly as an open with that text would.

\* Manifest-analysis runs: the editor, the collector and the metadata fetches.
DiagnosticsNext == OpenOrSave \/ RunNext

DiagnosticsSpec == Init /\ [][DiagnosticsNext]_vars

\* Every promise settles and every HTTP request ends, one way or the other.
RunFairness ==
    \A r \in 1..MaxRuns :
        /\ WF_vars(CollectResolved(r) \/ CollectRejected(r))
        /\ \A d \in Dependencies :
              WF_vars(MetadataError(r, d)
                      \/ \E res \in MetadataResponses : MetadataResponse(r, d, res))

DiagnosticsFairSpec == DiagnosticsSpec /\ RunFairness

\* The stack-analysis loop: the editor, submissions, timers and polls.  The
\* loop never reads the manifest text it posts, so one text stands for all.
OpenOrSaveManifest ==
    \/ \E u \in URIs : onDidOpenTextDocument(u, ManifestTwo)
    \/ \E u \in URIs : onDidSaveTextDocument(u)

StackLoopNext == OpenOrSaveManifest \/ StackNext

StackSpec == Init /\ [][StackLoopNext]_vars

\* The editor alone: the cache and the dispatch, every answer outstanding.
EditorSpec == Init /\ [][EditorNext]_vars

\* ------------------------------------------------- the Aggregator on its own

\* An Aggregator constructed over any set of dependencies, then any calls of
\* aggregate: keys of the set or not, marked already or not.
AggInit ==
    /\ handlers = on(<< >>, "Diagnostics", PackageJsonRe, PackageJsonHandler)
    /\ file_data = << >>
    /\ runs = << >>
    /\ sent = << >>
    /\ stack_analysis_requests = << >>
    /\ stack_analysis_responses = << >>
    /\ posts = EmptyBag
    /\ timers = EmptyBag
    /\ polls = EmptyBag
    /\ post_calls = [u \in URIs |-> 0]
    /\ retries = << >>
    /\ dispatch = [stream |-> "Invalid", file |-> << >>, invoked |-> << >>, result |-> << >>]
    /\ agg_items \in SUBSET Dependencies
    /\ agg_mapping = Aggregator(agg_items).mapping
    /\ agg_calls = << >>
    /\ agg_fired = IF Aggregator(agg_items).fired THEN <<0>> ELSE << >>

AggAggregate(dep) ==
    /\ Len(agg_calls) < MaxCalls
    /\ agg_calls' = Append(agg_calls, dep)
    /\ agg_mapping' = aggregate(agg_mapping, dep).mapping
    /\ agg_fired' = IF aggregate(agg_mapping, dep).fired
                    THEN Append(agg_fired, Len(agg_calls) + 1)
                    ELSE agg_fired
    /\ UNCHANGED <<handlers, file_data, runVars, stackVars, routerVars, agg_items>>

AggNext == \E d \in Dependencies : AggAggregate(d)

AggSpec == AggInit /\ [][AggNext]_vars

\* -------------------------------------------------- the router on its own

\* A fresh AnalysisFiles, then any registrations and any dispatches.  Each
\* registration brings its own callback, named by its number.
RouterInit ==
    /\ handlers = << >>
    /\ file_data = << >>
    /\ runs = << >>
    /\ sent = << >>
    /\ stack_analysis_requests = << >>
    /\ stack_analysis_responses = << >>
    /\ posts = EmptyBag
    /\ timers = EmptyBag
    /\ polls = EmptyBag
    /\ post_calls = [u \in URIs |-> 0]
    /\ retries = << >>
    /\ dispatch = [stream |-> "Invalid", file |-> << >>, invoked |-> << >>, result |-> << >>]
    /\ agg_items = {}
    /\ agg_mapping = << >>
    /\ agg_calls = << >>
    /\ agg_fired = << >>

RouterOn(stream, matcher) ==
    /\ Len(handlers) < MaxHandlers
    /\ handlers' = on(handlers, stream, matcher, Len(handlers) + 1)
    /\ UNCHANGED <<file_data, runVars, stackVars, routerVars, aggVars>>

RouterRun(stream, file) ==
    /\ dispatch' = [stream |-> stream, file |-> file,
                    invoked |-> run(handlers, stream, file).invoked,
                    result |-> run(handlers, stream, file).result]
    /\ UNCHANGED <<handlers, file_data, runVars, stackVars, aggVars>>

RouterNext ==
    \/ \E st \in {"Diagnostics", "CodeLens"}, m \in Matchers : RouterOn(st, m)
    \/ \E st \in EventStream, f \in FileNames : RouterRun(st, f)

RouterSpec == RouterInit /\ [][RouterNext]_vars

\* ------------------------------------------------------------------ claims

\* C1 (AggSpec): over a non-empty set of dependencies, while aggregate has
\* been called at most once per key and only with keys of the set, the
\* callback has not been invoked before every key is marked, and once the
\* last key is marked it has been invoked exactly once, by that last call.
C1_FiresOnceOnLastKey ==
    LET oncePerKey ==
            /\ \A i \in 1..Len(agg_calls) : agg_calls[i] \in agg_items
            /\ \A i, j \in 1..Len(agg_calls) : agg_calls[i] = agg_calls[j] => i = j
    IN  (agg_items # {} /\ oncePerKey) =>
            IF SeqToSet(agg_calls) = agg_items
            THEN agg_fired = <<Len(agg_calls)>>
            ELSE agg_fired = << >>

\* C1 witness: three dependencies marked in an order of their own, the
\* callback invoked by the third call.
C1_Witness ==
    /\ agg_items = Dependencies
    /\ agg_calls = <<Lodash, Express, LeftPad>>
    /\ agg_fired = <<3>>

\* C2 (DiagnosticsSpec): a run whose manifest declares no dependency has
\* published an empty diagnostics list, once, as soon as its Aggregator is
\* constructed.
C2_ZeroDependenciesPublishAtConstruction ==
    \A r \in 1..Len(runs) :
        (runs[r].phase = "fanned" /\ runs[r].deps = << >>) =>
            /\ Cardinality({i \in 1..Len(sent) : sent[i].run = r}) = 1
            /\ \A i \in 1..Len(sent) : sent[i].run = r => sent[i].diagnostics = << >>

\* C3 (AggSpec): once the callback has been invoked, by calls on keys of the
\* set alone, an aggregate call on a key of the set that is already marked
\* complete does not invoke it again.
C3_CompletedKeyDoesNotRefire ==
    [][\A d \in Dependencies :
          (/\ AggAggregate(d)
           /\ \A i \in 1..Len(agg_calls) : agg_calls[i] \in agg_items
           /\ agg_fired # << >>
           /\ d \in agg_items
           /\ agg_mapping[d])
          => agg_fired' = agg_fired]_vars

\* The entries the pipeline appends for the dependencies of run r whose fetch
\* handed the callback a payload.
EntriesOf(r) ==
    UNION {SeqToSet(PipelineRun(d, runs[r].fetch[d].arg[1], << >>)) :
              d \in {e \in DOMAIN runs[r].fetch :
                        runs[r].fetch[e].st = "ended" /\ runs[r].fetch[e].arg # << >>}}

\* Every fetch of run r has ended with a payload or with a not-found answer.
AllResolved(r) ==
    /\ runs[r].phase = "fanned"
    /\ \A d \in DOMAIN runs[r].fetch : runs[r].fetch[d].st = "ended"

\* C4 (DiagnosticsSpec): a run publishes only when all its fetches have
\* resolved, and a run all of whose fetches have resolved has published
\* exactly once, the batch being the entries appended for the dependencies
\* that returned a payload.
C4_OnePublishOfTheFullBatch ==
    \A r \in 1..Len(runs) :
        LET mine == {i \in 1..Len(sent) : sent[i].run = r}
        IN  /\ mine # {} => AllResolved(r)
            /\ AllResolved(r) =>
                 /\ Cardinality(mine) = 1
                 /\ \A i \in mine : /\ SeqToSet(sent[i].diagnostics) = EntriesOf(r)
                                    /\ sent[i].uri = runs[r].uri

\* C5 (DiagnosticsFairSpec): every metadata fetch that was started leads to
\* its dependency being marked complete in the run's Aggregator.
C5_EveryFetchIsReportedComplete ==
    \A r \in 1..MaxRuns : \A d \in Dependencies :
        (r <= Len(runs) /\ d \in DOMAIN runs[r].fetch)
            ~> (r <= Len(runs) /\ d \in DOMAIN runs[r].mapping /\ runs[r].mapping[d])

\* C6 (DiagnosticsSpec): a dependency marked complete has had its callback
\* run, with all the entries the pipeline produces for it in the run's
\* buffer; and what a run published is its buffer as it stands ever after, so
\* the batch held the entries of the dependency marked last and nothing was
\* appended after the publish.
C6_EntriesBeforeCompletion ==
    \A r \in 1..Len(runs) :
        /\ \A d \in DOMAIN runs[r].mapping :
              runs[r].mapping[d] =>
                 /\ runs[r].fetch[d].st = "ended"
                 /\ runs[r].fetch[d].arg # << >> =>
                       SeqToSet(PipelineRun(d, runs[r].fetch[d].arg[1], << >>))
                          \subseteq SeqToSet(runs[r].diagnostics)
        /\ \A i \in 1..Len(sent) :
              sent[i].run = r => sent[i].diagnostics = runs[r].diagnostics

\* C6 witness: a run has published the entries of both its dependencies.
C6_Witness ==
    \E i \in 1..Len(sent) :
        /\ Len(sent[i].diagnostics) = 2
        /\ \A d \in DOMAIN runs[sent[i].run].mapping : runs[sent[i].run].mapping[d]

\* The requests of a document that are outstanding: submissions awaiting
\* their response, and polls pending or in flight.
Outstanding(u) ==
    CopiesIn([uri |-> u], posts)
    + Cardinality({id \in 1..Len(retries) :
                      CopiesIn(Timer(u, id), timers) + CopiesIn([uri |-> u, id |-> id], polls) > 0})

\* C7 (StackSpec): no document ever has more than one request outstanding,
\* whether submitted and unanswered or being polled.
C7_OneOutstandingRequestPerUri == \A u \in URIs : Outstanding(u) <= 1

\* C8 (RouterSpec): a dispatch invokes at most one handler; when some
\* registration has the requested stream and a matcher that tests true on the
\* file name, it invokes exactly the earliest such registration's callback
\* and returns its value; and with that registration and a later matching one
\* swapped in the list, the same dispatch picks the other.
C8_FirstMatchWins ==
    [][\A st \in EventStream, f \in FileNames :
          RouterRun(st, f) =>
             LET matches(hs) == {i \in 1..Len(hs) :
                                    hs[i].stream = st /\ Test(hs[i].matcher, f)}
                 swap(hs, i, j) == [hs EXCEPT ![i] = hs[j], ![j] = hs[i]]
             IN  /\ Len(dispatch'.invoked) <= 1
                 /\ \A i \in matches(handlers) :
                       (\A k \in matches(handlers) : i <= k) =>
                          /\ dispatch'.invoked = <<handlers[i].callback>>
                          /\ dispatch'.result = <<handlers[i].callback>>
                          /\ \A j \in matches(handlers) \ {i} :
                                /\ run(swap(handlers, i, j), st, f).invoked
                                      = <<handlers[j].callback>>
                                /\ handlers[j].callback # handlers[i].callback
                 /\ handlers' = handlers]_vars

\* C8 witness: the second of three registrations won a dispatch that the
\* third matches too and the first does not.
C8_Witness ==
    /\ Len(handlers) = 3
    /\ dispatch.stream = "Diagnostics"
    /\ dispatch.file = PackageJson
    /\ handlers[1].stream = "CodeLens"
    /\ handlers[2] = [matcher |-> JsonEndRe, stream |-> "Diagnostics", callback |-> 2]
    /\ handlers[3] = [matcher |-> PackageJsonRe, stream |-> "Diagnostics", callback |-> 3]
    /\ dispatch.invoked = <<2>>

\* C9 (DiagnosticsSpec): an open or save of a document whose bare file name
\* no Diagnostics registration matches invokes no handler and yields the
\* undefined result, leaves the registrations as they are, and starts no
\* run, no metadata fetch, no submission and no publish; a code-lens dispatch
\* for any document yields the undefined result as well.
C9_DispatchMissStartsNothing ==
    [][\A u \in URIs :
          LET name == u[Len(u)]
              miss == \A i \in 1..Len(handlers) :
                         ~(handlers[i].stream = "Diagnostics" /\ Test(handlers[i].matcher, name))
          IN  (miss /\ (onDidSaveTextDocument(u)
                        \/ \E c \in Contents : onDidOpenTextDocument(u, c)))
              => /\ run(handlers, "Diagnostics", Basename(u)) = [invoked |-> << >>, result |-> << >>]
                 /\ run(handlers, "CodeLens", Basename(u)).result = << >>
                 /\ UNCHANGED <<handlers, runs, sent, posts, post_calls, timers, polls>>]_vars

\* C9 witness: the README inside the directory called package.json was
\* opened, and nothing was started.
C9_Witness ==
    /\ UriR \in DOMAIN file_data
    /\ runs = << >>
    /\ posts = EmptyBag
    /\ sent = << >>

\* C10 (StackSpec): a poll answered with status code 202 leaves exactly one
\* more timer for the same document and id, of the fixed delay, and nothing
\* stored; and after every step no request id has more than one timer or poll
\* pending in all.
C10_RetryOncePerInProgress ==
    [][/\ \A u \in URIs, id \in 1..Len(retries), res \in PollResponses :
             (res.statusCode = 202 /\ PollResponse(u, id, res)) =>
                /\ timers' = timers (+) SetToBag({[uri |-> u, id |-> id, delay |-> 10000]})
                /\ polls' = polls (-) SetToBag({[uri |-> u, id |-> id]})
                /\ UNCHANGED <<stack_analysis_requests, stack_analysis_responses, posts>>
       /\ \A id \in 1..Len(retries') :
             Cardinality({u \in URIs : CopiesIn([uri |-> u, id |-> id, delay |-> 10000], timers') > 0
                                        \/ CopiesIn([uri |-> u, id |-> id], polls') > 0}) <= 1
       /\ \A u \in URIs, id \in 1..Len(retries') :
             CopiesIn([uri |-> u, id |-> id, delay |-> 10000], timers')
                + CopiesIn([uri |-> u, id |-> id], polls') <= 1]_vars

\* C10 witness: one request was answered 202 twice and then success.
C10_Witness ==
    \E u \in DOMAIN stack_analysis_responses :
        /\ retries[stack_analysis_responses[u].id] = 2
        /\ timers = EmptyBag
        /\ polls = EmptyBag

\* C11 (StackSpec): a poll answered with status success stores the result
\* under the document's URI and leaves no timer and no poll for its request;
\* a poll answered with neither success nor 202 stores nothing and leaves no
\* timer and no poll for its request; a request with no timer and no poll
\* pending never gets one again; and the table of results changes only in a
\* step that answers a poll with status success.
C11_TerminalPollResponses ==
    [][/\ \A u \in URIs, id \in 1..Len(retries), res \in PollResponses :
             (PollResponse(u, id, res) /\ res.statusCode # 202) =>
                /\ polls' = polls (-) SetToBag({[uri |-> u, id |-> id]})
                /\ timers' = timers
                /\ \A v \in URIs :
                      /\ CopiesIn([uri |-> v, id |-> id, delay |-> 10000], timers') = 0
                      /\ CopiesIn([uri |-> v, id |-> id], polls') = 0
                /\ IF res.status = "success"
                   THEN /\ u \in DOMAIN stack_analysis_responses'
                        /\ stack_analysis_responses'[u].status = "success"
                        /\ stack_analysis_responses'[u].id = id
                        /\ \A v \in DOMAIN stack_analysis_responses' \ {u} :
                              /\ v \in DOMAIN stack_analysis_responses
                              /\ stack_analysis_responses'[v] = stack_analysis_responses[v]
                   ELSE stack_analysis_responses' = stack_analysis_responses
       /\ \A id \in 1..Len(retries) :
             (\A v \in URIs :
                 /\ CopiesIn([uri |-> v, id |-> id, delay |-> 10000], timers) = 0
                 /\ CopiesIn([uri |-> v, id |-> id], polls) = 0)
             => \A v \in URIs :
                   /\ CopiesIn([uri |-> v, id |-> id, delay |-> 10000], timers') = 0
                   /\ CopiesIn([uri |-> v, id |-> id], polls') = 0
       /\ stack_analysis_responses' # stack_analysis_responses =>
             \E u \in URIs, id \in 1..Len(retries), res \in PollResponses :
                 res.status = "success" /\ PollResponse(u, id, res)]_vars

\* C11 witness: one document's request ended with a stored result, the
\* other's ended with none, and neither has a timer or a poll left.
C11_Witness ==
    /\ Len(retries) = 2
    /\ DOMAIN stack_analysis_requests = {UriA, UriB}
    /\ DOMAIN stack_analysis_responses = {UriA}
    /\ timers = EmptyBag
    /\ polls = EmptyBag
    /\ posts = EmptyBag

\* C12 (StackSpec): a submission answered with a transport error, an error
\* member or a status other than success changes neither the table of
\* requests nor the timers, and leaves the document with no recorded request
\* and no timer, so that the next get_stack_metadata for it submits again.
C12_FailedSubmissionLeavesUriIdle ==
    [][\A u \in URIs, resp \in SubmitResponses :
          (SubmitResponse(u, resp) /\ (resp.err \/ resp.error \/ resp.status # "success")) =>
             /\ UNCHANGED <<stack_analysis_requests, timers, polls>>
             /\ u \notin DOMAIN stack_analysis_requests'
             /\ \A id \in 1..Len(retries') :
                   CopiesIn([uri |-> u, id |-> id, delay |-> 10000], timers') = 0]_vars

\* C13 (DiagnosticsSpec): a run whose collect() rejected, and any run over a
\* manifest that is not well formed, has no Aggregator mapping, no metadata
\* fetch and no dependency list, and nothing was published for it.
C13_RejectedRunIsAbandoned ==
    \A r \in 1..Len(runs) :
        (runs[r].phase = "rejected" \/ runs[r].contents = ManifestBad) =>
            /\ runs[r].phase \in {"collecting", "rejected"}
            /\ runs[r].mapping = << >>
            /\ runs[r].fetch = << >>
            /\ runs[r].deps = << >>
            /\ runs[r].diagnostics = << >>
            /\ \A i \in 1..Len(sent) : sent[i].run # r

\* C13 witness: the first run, over a malformed manifest, was rejected, and
\* a later run of the same document over a well-formed one has published.
C13_Witness ==
    /\ Len(runs) = 2
    /\ runs[1].phase = "rejected"
    /\ runs[2].uri = runs[1].uri
    /\ \E i \in 1..Len(sent) : sent[i].run = 2

\* C14 (StackSpec): once a poll is answered with success or with a failure
\* other than 202, the document is no longer a key of the table of requests,
\* so get_stack_metadata no longer takes it for having a request outstanding.
C14_TerminalResponseClearsRequest ==
    [][\A u \in URIs, id \in 1..Len(retries), res \in PollResponses :
          (PollResponse(u, id, res) /\ ~res.err /\ res.statusCode # 202) =>
             u \notin DOMAIN stack_analysis_requests']_vars

\* C15 (EditorSpec): an open or a change of a document leaves its text, and
\* no other change, in the cache; a change starts no run, no submission and
\* no publish; a save leaves the cache as it is and, for a document the
\* package.json handler takes, starts one run that is handed exactly the
\* cached text; and no step changes the cache of a document otherwise.
C15_CacheHoldsLatestText ==
    [][/\ \A u \in URIs, c \in Contents :
             (onDidOpenTextDocument(u, c) \/ onDidChangeTextDocument(u, c)) =>
                /\ DOMAIN file_data' = DOMAIN file_data \cup {u}
                /\ file_data'[u] = c
                /\ \A v \in DOMAIN file_data \ {u} : file_data'[v] = file_data[v]
       /\ \A u \in URIs, c \in Contents :
             onDidChangeTextDocument(u, c) =>
                UNCHANGED <<handlers, runs, sent, posts, post_calls, timers, polls, dispatch>>
       /\ \A u \in URIs :
             onDidSaveTextDocument(u) =>
                /\ file_data' = file_data
                /\ IF u[Len(u)] = PackageJson
                   THEN /\ Len(runs') = Len(runs) + 1
                        /\ \A r \in 1..Len(runs) : runs'[r] = runs[r]
                        /\ runs'[Len(runs')].uri = u
                        /\ runs'[Len(runs')].contents = file_data[u]
                   ELSE runs' = runs
       /\ \A v \in DOMAIN file_data :
             file_data'[v] # file_data[v] =>
                \/ onDidOpenTextDocument(v, file_data'[v])
                \/ onDidChangeTextDocument(v, file_data'[v])]_vars

\* C15 witness: the document was analysed over one text, then over another,
\* and was changed since to a third, which the cache holds.
C15_Witness ==
    /\ Len(runs) = 2
    /\ runs[1].uri = UriA /\ runs[1].contents = ManifestTwo
    /\ runs[2].uri = UriA /\ runs[2].contents = ManifestNone
    /\ file_data[UriA] = ManifestBad
    /\ UriR \in DOMAIN file_data

\* C16 (DiagnosticsSpec): a dependency whose metadata fetch ended with a
\* status other than 200 and 202, and which is marked complete, has had a
\* Diagnostics Pipeline run for it, on the absent payload.
C16_PipelineRunsOnFetchFailure ==
    \A r \in 1..Len(runs) : \A d \in DOMAIN runs[r].fetch :
        (/\ runs[r].fetch[d].st = "ended"
         /\ runs[r].fetch[d].arg = << >>
         /\ runs[r].mapping[d])
        => runs[r].fetch[d].piped

\* C17 (AggSpec): an aggregate call on a key that was not in the set the
\* Aggregator was constructed over does not invoke the callback and leaves
\* the tracked keys and their marks as they were.
C17_ForeignKeyIsIgnored ==
    [][\A d \in Dependencies :
          (AggAggregate(d) /\ d \notin agg_items) =>
             /\ agg_fired' = agg_fired
             /\ agg_mapping' = agg_mapping]_vars

\* C18 (DiagnosticsSpec): an open or a save leaves every run started before
\* it, and what was published, exactly as they were, whatever document the
\* earlier runs are of; and the fetch answer that marks the last dependency
\* of a run publishes that run's buffer, whether or not a later run of the
\* same document exists or has published already.
C18_RunsAreNeverCancelled ==
    [][/\ \A u \in URIs :
             (onDidSaveTextDocument(u) \/ \E c \in Contents : onDidOpenTextDocument(u, c)) =>
                /\ sent' = sent
                /\ \A r \in 1..Len(runs) : runs'[r] = runs[r]
       /\ \A r \in 1..Len(runs) : \A d \in DOMAIN runs[r].fetch, res \in MetadataResponses :
             MetadataResponse(r, d, res) =>
                IF \A e \in DOMAIN runs[r].fetch \ {d} :
                      runs[r].fetch[e].st = "ended"
                THEN sent' = Append(sent, [uri |-> runs[r].uri,
                                           diagnostics |-> runs'[r].diagnostics,
                                           run |-> r])
                ELSE sent' = sent]_vars

\* C18 witness: two runs of one document, the second started before the
\* first had all its answers; the second published first and the first
\* last, with other diagnostics.
C18_Witness ==
    /\ Len(runs) = 2
    /\ runs[1].uri = runs[2].uri
    /\ Len(sent) = 2
    /\ sent[1].run = 2
    /\ sent[2].run = 1
    /\ sent[1].uri = sent[2].uri
    /\ sent[1].diagnostics # sent[2].diagnostics

\* C19 (DiagnosticsSpec): the answer to a fetch of one run leaves every
\* other run, its marks and its buffer included, as it was, and what it
\* publishes is a batch of its own run and document; and after every step
\* each published batch, like each buffer, holds only entries that the
\* pipeline produces from the answers to that run's own fetches.
C19_RunIsolation ==
    [][/\ \A r \in 1..Len(runs) : \A d \in DOMAIN runs[r].fetch, res \in MetadataResponses :
             MetadataResponse(r, d, res) =>
                /\ Len(runs') = Len(runs)
                /\ \A q \in 1..Len(runs) \ {r} : runs'[q] = runs[q]
                /\ \A i \in 1..Len(sent) : sent'[i] = sent[i]
                /\ \A i \in (Len(sent) + 1)..Len(sent') :
                      /\ sent'[i].run = r
                      /\ sent'[i].uri = runs[r].uri
                      /\ sent'[i].diagnostics = runs'[r].diagnostics
       /\ LET own(q) ==
                 UNION {SeqToSet(PipelineRun(e, runs'[q].fetch[e].arg[1], << >>)) :
                           e \in {f \in DOMAIN runs'[q].fetch :
                                     /\ runs'[q].fetch[f].st = "ended"
                                     /\ runs'[q].fetch[f].arg # << >>}}
          IN  /\ \A q \in 1..Len(runs') : SeqToSet(runs'[q].diagnostics) \subseteq own(q)
              /\ \A i \in 1..Len(sent') :
                    SeqToSet(sent'[i].diagnostics) \subseteq own(sent'[i].run)]_vars

\* C19 witness: the runs of two documents have each published: the first
\* an empty batch, all its fetches having failed, the second the entries of
\* both its dependencies.
C19_Witness ==
    /\ Len(runs) = 2
    /\ runs[1].uri = UriA
    /\ runs[2].uri = UriB
    /\ \E i, j \in 1..Len(sent) :
          /\ sent[i].run = 1 /\ sent[i].diagnostics = << >>
          /\ sent[j].run = 2 /\ Len(sent[j].diagnostics) = 2

\* C20 (StackSpec): after every step each document with a stored result has
\* a recorded request id; a timer or a poll for a document and an id comes
\* into being only with the accepted submission of that document that was
\* given that id, which is recorded for the document in the same step; and
\* an open or a save of a document with a recorded id makes no submission.
C20_StackTablesConsistent ==
    [][/\ DOMAIN stack_analysis_responses' \subseteq DOMAIN stack_analysis_requests'
       /\ \A u \in URIs : \A id \in 1..Len(retries') :
             (/\ CopiesIn([uri |-> u, id |-> id, delay |-> 10000], timers)
                    + CopiesIn([uri |-> u, id |-> id], polls) = 0
              /\ CopiesIn([uri |-> u, id |-> id, delay |-> 10000], timers')
                    + CopiesIn([uri |-> u, id |-> id], polls') > 0)
             => /\ SubmitResponse(u, SubmitAccepted)
                /\ id = Len(retries) + 1
                /\ u \in DOMAIN stack_analysis_requests'
                /\ stack_analysis_requests'[u] = id
       /\ \A u \in DOMAIN stack_analysis_requests :
             (onDidSaveTextDocument(u) \/ \E c \in Contents : onDidOpenTextDocument(u, c)) =>
                UNCHANGED <<posts, post_calls, stack_analysis_requests, timers, polls>>]_vars

\* C20 witness: a document analysed twice and submitted once, the second
\* event finding its id recorded; its result is stored.
C20_Witness ==
    /\ Len(runs) = 2
    /\ runs[1].uri = UriB
    /\ runs[2].uri = UriB
    /\ post_calls[UriB] = 1
    /\ UriB \in DOMAIN stack_analysis_responses
    /\ stack_analysis_responses[UriB].id = stack_analysis_requests[UriB]

====
